---------------------------- MODULE Spec2Model ----------------------------
(***************************************************************************)
(* A model of app.py, a Streamlit dashboard.  The script is run from top   *)
(* to bottom on the first page load and again after every interaction with *)
(* a control.  One run is modelled statement by statement (pc names the    *)
(* statement about to execute); the page holds what the browser shows; the *)
(* widget states are what the session keeps between runs.                  *)
(*                                                                         *)
(* Tables are sequences of rows (records).  Text that the script takes     *)
(* apart (refPeriod of the hepatitis data, the closing message) is a       *)
(* sequence of one-character strings.  An optional value is <<>> (absent)  *)
(* or <<v>> (present).                                                     *)
(***************************************************************************)
EXTENDS Integers, Sequences, FiniteSets, TLC

VARIABLES
    pc,                 \* the statement of app.py about to execute
    errorAt,            \* the statement whose exception ended the run ("" when none)
    remoteDebt,         \* what the debt URL currently serves
    remoteHep,          \* what the hepatitis URL currently serves
    df_debt,            \* app.py:40-46
    min_year,           \* app.py:49
    max_year,           \* app.py:50
    year_range,         \* app.py:52
    df_debt_filtered,   \* app.py:59
    df_hepatitis,       \* app.py:104-116
    cases_over_time,    \* app.py:119
    years_available,    \* app.py:126
    years_selected,     \* app.py:127
    cases_filtered,     \* app.py:133
    aggregation,        \* app.py:136
    words,              \* app.py:187
    text,               \* app.py:188
    wi,                 \* app.py:189, the number of words the for loop has consumed
    page,               \* the elements this run has drawn so far
    slider_state,       \* the session's value of the slider, with the widget's identity
    years_state,        \* the session's value of the multiselect, with the widget's identity
    radio_state,        \* the session's value of the radio
    clicked,            \* the button was clicked to start this run
    events,             \* the fetches and chart renderings of this run, in order
    previous            \* the interaction that started this run, and what the run
                        \* before it showed (for a comparison over unchanged data)

vars == << pc, errorAt, remoteDebt, remoteHep, df_debt, min_year, max_year,
           year_range, df_debt_filtered, df_hepatitis, cases_over_time,
           years_available, years_selected, cases_filtered, aggregation,
           words, text, wi, page, slider_state, years_state, radio_state,
           clicked, events, previous >>

---------------------------------------------------------------------------
(* Bounds of the model. *)

\* The longest debt table the debt pipeline is checked on.
MaxDebtRows == 2

\* The longest hepatitis table the hepatitis pipeline is checked on.
MaxHepRows == 2

---------------------------------------------------------------------------
(* Generic helpers. *)

Range(s) == { s[i] : i \in 1..Len(s) }

RECURSIVE SeqsUpTo(_, _)
SeqsUpTo(S, n) ==
    IF n = 0 THEN { <<>> }
    ELSE LET shorter == SeqsUpTo(S, n - 1)
         IN  shorter \cup { Append(s, x) : s \in { t \in shorter : Len(t) = n - 1 }, x \in S }

\* t is u with its rows in another order.
IsPermutation(t, u) ==
    /\ Len(t) = Len(u)
    /\ \E p \in [1..Len(t) -> 1..Len(t)] :
          /\ \A i, j \in 1..Len(t) : i # j => p[i] # p[j]
          /\ \A i \in 1..Len(t) : t[i] = u[p[i]]

---------------------------------------------------------------------------
(* The debt pipeline, app.py:38-73. *)

IndicatorCode == "DT.TDS.DPPG.CD"

DefaultStart == 1970

\* pd.read_csv of a URL: the table served, or an exception.
ReadCsvFails(remote) == remote.status = "unreachable"

\* df_debt[df_debt["Indicator Code"] == "DT.TDS.DPPG.CD"]
DebtIndicator(t) ==
    LET keep(r) == r.code = IndicatorCode IN SelectSeq(t, keep)

IsSortedByRefPeriod(t) ==
    \A i \in 1..(Len(t) - 1) : t[i].refPeriod <= t[i + 1].refPeriod

\* df_debt.sort_values("refPeriod"): the default sort is not stable, so rows of
\* the same refPeriod may come out in any order.
SortValues(t) ==
    { u \in [1..Len(t) -> Range(t)] : IsPermutation(u, t) /\ IsSortedByRefPeriod(u) }

SetMin(S) == CHOOSE x \in S : \A y \in S : x <= y
SetMax(S) == CHOOSE x \in S : \A y \in S : x >= y

RefPeriods(t) == { t[i].refPeriod : i \in 1..Len(t) }

\* DebtRange with the upper end of the range left out.
DebtRangeHalfOpen(t, lo, hi) ==
    LET keep(r) == r.refPeriod >= lo /\ r.refPeriod < hi IN SelectSeq(t, keep)

\* df_debt[(df_debt["refPeriod"] >= year_range[0]) & (df_debt["refPeriod"] <= year_range[1])]
DebtRange(t, lo, hi) ==
    LET keep(r) == r.refPeriod >= lo /\ r.refPeriod <= hi IN SelectSeq(t, keep)

---------------------------------------------------------------------------
(* The hepatitis pipeline, app.py:102-165. *)

Digits == { "0", "1", "2", "3", "4", "5", "6", "7", "8", "9" }

DigitVal(c) ==
    CASE c = "0" -> 0 [] c = "1" -> 1 [] c = "2" -> 2 [] c = "3" -> 3 [] c = "4" -> 4
      [] c = "5" -> 5 [] c = "6" -> 6 [] c = "7" -> 7 [] c = "8" -> 8 [] c = "9" -> 9

DigitChar(d) ==
    CASE d = 0 -> "0" [] d = 1 -> "1" [] d = 2 -> "2" [] d = 3 -> "3" [] d = 4 -> "4"
      [] d = 5 -> "5" [] d = 6 -> "6" [] d = 7 -> "7" [] d = 8 -> "8" [] d = 9 -> "9"

\* The regular expression \d{2}-\d{4} matches s at position i.
MatchAt(s, i) ==
    /\ i >= 1
    /\ i + 6 <= Len(s)
    /\ s[i] \in Digits /\ s[i + 1] \in Digits
    /\ s[i + 2] = "-"
    /\ \A k \in 3..6 : s[i + k] \in Digits

NaN == <<>>

\* StrExtract taking the last match instead of the first.
StrExtractLast(s) ==
    IF \E i \in 1..Len(s) : MatchAt(s, i)
    THEN LET i == CHOOSE j \in 1..Len(s) :
                      MatchAt(s, j) /\ \A k \in (j + 1)..Len(s) : ~MatchAt(s, k)
         IN  SubSeq(s, i, i + 6)
    ELSE NaN

\* .str.extract(r"(\d{2}-\d{4})"): the first (leftmost) match, NaN when none.
StrExtract(s) ==
    IF \E i \in 1..Len(s) : MatchAt(s, i)
    THEN LET i == CHOOSE j \in 1..Len(s) :
                      MatchAt(s, j) /\ \A k \in 1..(j - 1) : ~MatchAt(s, k)
         IN  SubSeq(s, i, i + 6)
    ELSE NaN

NaT == <<>>

\* The first and the last month whose first day a nanosecond Timestamp holds
\* (Timestamp.min is 1677-09-21, Timestamp.max is 2262-04-11).
TimestampFirstMonth == << 1677, 10 >>
TimestampLastMonth == << 2262, 4 >>

MonthIndex(d) == d[1] * 12 + d[2]

TokenMonth(tok) == 10 * DigitVal(tok[1]) + DigitVal(tok[2])

TokenYear(tok) ==
    1000 * DigitVal(tok[4]) + 100 * DigitVal(tok[5]) + 10 * DigitVal(tok[6]) + DigitVal(tok[7])

\* pd.to_datetime(token, format="%m-%Y", errors="coerce"): <<year, month>> (the
\* day is 1), and NaT for NaN, for a month outside 01..12 and for a date that
\* a Timestamp cannot hold.
ToDatetime(tok) ==
    IF tok = NaN THEN NaT
    ELSE LET d == << TokenYear(tok), TokenMonth(tok) >>
         IN  IF /\ d[2] \in 1..12
                /\ MonthIndex(d) >= MonthIndex(TimestampFirstMonth)
                /\ MonthIndex(d) <= MonthIndex(TimestampLastMonth)
             THEN d ELSE NaT

\* astype(str) of a non-negative integer: its decimal digits.
RECURSIVE IntToStr(_)
IntToStr(n) ==
    IF n < 10 THEN << DigitChar(n) >> ELSE Append(IntToStr(n \div 10), DigitChar(n % 10))

\* Python's order of two strings of digits.
RECURSIVE StrLess(_, _)
StrLess(a, b) ==
    IF a = <<>> THEN b # <<>>
    ELSE IF b = <<>> THEN FALSE
    ELSE IF Head(a) # Head(b) THEN DigitVal(Head(a)) < DigitVal(Head(b))
    ELSE StrLess(Tail(a), Tail(b))

DateLess(a, b) == a[1] < b[1] \/ (a[1] = b[1] /\ a[2] < b[2])

\* sorted(S) for a set of strings of digits.
RECURSIVE SortedStrs(_)
SortedStrs(S) ==
    IF S = {} THEN <<>>
    ELSE LET m == CHOOSE x \in S : \A y \in S \ {x} : StrLess(x, y)
         IN  << m >> \o SortedStrs(S \ {m})

\* The group keys (Date, Year) in the order groupby puts them: by Date, then Year.
RECURSIVE SortedKeys(_)
SortedKeys(S) ==
    IF S = {} THEN <<>>
    ELSE LET m == CHOOSE x \in S : \A y \in S \ {x} :
                      DateLess(x[1], y[1]) \/ (x[1] = y[1] /\ StrLess(x[2], y[2]))
         IN  << m >> \o SortedKeys(S \ {m})

\* The sum of column cases over the rows of t.
RECURSIVE SumCases(_)
SumCases(t) == IF t = <<>> THEN 0 ELSE Head(t).cases + SumCases(Tail(t))

\* df.groupby(["Date", "Year"])["Number of cases"].sum().reset_index()
GroupByDateYear(t) ==
    LET keys == SortedKeys({ << t[i].Date, t[i].Year >> : i \in 1..Len(t) })
    IN  [ k \in 1..Len(keys) |->
            LET in(r) == r.Date = keys[k][1] /\ r.Year = keys[k][2]
            IN  [ Date |-> keys[k][1], Year |-> keys[k][2],
                  cases |-> SumCases(SelectSeq(t, in)) ] ]

\* cases_filtered.groupby("Year")["Number of cases"].sum().reset_index()
GroupByYear(t) ==
    LET keys == SortedStrs({ t[i].Year : i \in 1..Len(t) })
    IN  [ k \in 1..Len(keys) |->
            LET in(r) == r.Year = keys[k]
            IN  [ Year |-> keys[k], cases |-> SumCases(SelectSeq(t, in)) ] ]

\* IsIn that keeps every bucket, whatever is selected.
IsInIgnored(t, sel) == t

\* cases_over_time[cases_over_time["Year"].isin(years_selected)]
IsIn(t, sel) ==
    LET keep(r) == r.Year \in sel IN SelectSeq(t, keep)

RadioOptions == << "Monthly Cases", "Yearly Totals" >>

---------------------------------------------------------------------------
(* The closing message, app.py:183-192. *)

\* "From debt to disease, I hope you learned something new! :)"
message ==
    <<
    "F", "r", "o", "m", " ", "d", "e", "b", "t", " ", "t", "o", " ", "d", "i", "s",
    "e", "a", "s", "e", ",", " ", "I", " ", "h", "o", "p", "e", " ", "y", "o", "u",
    " ", "l", "e", "a", "r", "n", "e", "d", " ", "s", "o", "m", "e", "t", "h", "i",
    "n", "g", " ", "n", "e", "w", "!", " ", ":", ")" >>

\* str.split() with no argument: the maximal runs of non-blank characters.
RECURSIVE SplitFrom(_, _, _)
SplitFrom(s, cur, acc) ==
    IF s = <<>> THEN (IF cur = <<>> THEN acc ELSE Append(acc, cur))
    ELSE IF Head(s) = " "
         THEN SplitFrom(Tail(s), <<>>, IF cur = <<>> THEN acc ELSE Append(acc, cur))
         ELSE SplitFrom(Tail(s), Append(cur, Head(s)), acc)

Split(s) == SplitFrom(s, <<>>, <<>>)

---------------------------------------------------------------------------
(* What the two URLs may serve. *)

Unreachable == [ status |-> "unreachable", rows |-> <<>> ]

Served(rows) == [ status |-> "ok", rows |-> rows ]

DebtRow(code, year, value) == [ code |-> code, refPeriod |-> year, Value |-> value ]

\* The years a slider handle is moved to.
YearStops == { 1969, 1970, 1971, 1980, 2022 }
SliderStops == { 1970, 1980, 2022 }

\* Indicator rows of 1970, 1980 and 2022 among others, not in order.
DebtExample ==
    << DebtRow(IndicatorCode, 1980, 50), DebtRow("DT.TDS.MLAT.CD", 1969, 7),
       DebtRow(IndicatorCode, 1970, 5), DebtRow(IndicatorCode, 2022, 0) >>

\* No row of the indicator.
DebtNoIndicator == << DebtRow("DT.TDS.MLAT.CD", 1970, 7) >>

\* Indicator rows that start after 1970.
DebtLate == << DebtRow(IndicatorCode, 2022, 0), DebtRow(IndicatorCode, 1980, 50) >>

\* A response without the refPeriod column.
DebtMalformed == << [ code |-> IndicatorCode, Value |-> 5 ] >>

DebtSources ==
    { Unreachable, Served(DebtExample), Served(DebtNoIndicator), Served(DebtLate),
      Served(DebtMalformed) }

DebtRows ==
    { DebtRow(c, y, v) : c \in { IndicatorCode, "DT.TDS.MLAT.CD" },
                         y \in { 1969, 1970, 1971 }, v \in { 5, 50 } }

\* Every debt table of at most MaxDebtRows rows, and the example.
DebtTables ==
    { Served(t) : t \in SeqsUpTo(DebtRows, MaxDebtRows) } \cup { Served(DebtExample) }

HepRow(ref, n) == [ refPeriod |-> ref, cases |-> n ]

Jan2015 == << "0", "1", "-", "2", "0", "1", "5" >>
Dec2016 == << "1", "2", "-", "2", "0", "1", "6" >>
EmbeddedJan2016 == << "x", "0", "1", "-", "2", "0", "1", "6" >>
Month13 == << "1", "3", "-", "2", "0", "1", "5" >>
YearOnly == << "2", "0", "1", "5" >>
Month13ThenJan2016 == << "1", "3", "-", "2", "0", "1", "5", " ", "0", "1", "-", "2", "0", "1", "6" >>
Month00 == << "0", "0", "-", "2", "0", "1", "6" >>
Year0000 == << "0", "1", "-", "0", "0", "0", "0" >>
Jan2015Longer == << "0", "1", "-", "2", "0", "1", "5", "6" >>

HepExample ==
    << HepRow(Jan2015, 10), HepRow(Month13, 5), HepRow(Dec2016, 3),
       HepRow(EmbeddedJan2016, 4) >>

\* No row with a month-year token.
HepNoToken == << HepRow(YearOnly, 5) >>

\* A response without the refPeriod column.
HepMalformed == << [ cases |-> 5 ] >>

HepSources ==
    { Unreachable, Served(HepExample), Served(HepNoToken), Served(HepMalformed) }

HepRows ==
    { HepRow(ref, n) :
        ref \in { Jan2015, Dec2016, EmbeddedJan2016, Month13, YearOnly, Month13ThenJan2016 },
        n \in { 1, 2 } }

\* Every hepatitis table of at most MaxHepRows rows, the example, and a table
\* of the tokens that to_datetime refuses.
HepTables ==
    { Served(t) : t \in SeqsUpTo(HepRows, MaxHepRows) }
        \cup { Served(HepExample),
               Served(<< HepRow(Month00, 5), HepRow(Year0000, 7), HepRow(Jan2015Longer, 2) >>) }

---------------------------------------------------------------------------
(* The page and the run. *)

EmptyPage ==
    [ slider |-> <<>>, debtChart |-> <<>>, multiselect |-> <<>>, radio |-> <<>>,
      hepChart |-> <<>>, button |-> FALSE, closing |-> <<>> ]

\* The statements of app.py in the order a run executes them.
Statements ==
    << "debt_read", "debt_indicator", "debt_sort", "min_max", "slider", "debt_range",
       "debt_plot", "hep_read", "hep_extract", "hep_to_datetime", "hep_dropna",
       "hep_year", "hep_groupby", "multiselect", "hep_isin", "radio", "hep_plot",
       "button", "reveal" >>

Position(stmt) == CHOOSE i \in 1..Len(Statements) : Statements[i] = stmt

\* A run is over: the script ran to its end or stopped at an exception.
Idle == pc \in { "done", "error" }

\* A column the table lacks: indexing it raises KeyError.
MissingColumn(t, col) == \E i \in 1..Len(t) : col \notin DOMAIN t[i]

debtLocals == << df_debt, min_year, max_year, year_range, df_debt_filtered >>
hepLocals == << df_hepatitis, cases_over_time, years_available, years_selected,
                cases_filtered, aggregation >>
revealLocals == << words, text, wi >>
widgets == << slider_state, years_state, radio_state >>
remotes == << remoteDebt, remoteHep >>

\* An uncaught exception at the statement pc ends the run; what the run has
\* drawn stays on the page.
Raise ==
    /\ pc' = "error"
    /\ errorAt' = pc
    /\ UNCHANGED previous

\* Control passes to the next statement.
Goto(stmt) ==
    /\ pc' = stmt
    /\ UNCHANGED << errorAt, previous >>

\* The first load of the page, the URLs serving one of debts and one of heps.
InitFrom(debts, heps) ==
    /\ pc = "debt_read"
    /\ errorAt = ""
    /\ remoteDebt \in debts
    /\ remoteHep \in heps
    /\ df_debt = <<>>
    /\ min_year = 0
    /\ max_year = 0
    /\ year_range = << 0, 0 >>
    /\ df_debt_filtered = <<>>
    /\ df_hepatitis = <<>>
    /\ cases_over_time = <<>>
    /\ years_available = <<>>
    /\ years_selected = {}
    /\ cases_filtered = <<>>
    /\ aggregation = RadioOptions[1]
    /\ words = <<>>
    /\ text = <<>>
    /\ wi = 0
    /\ page = EmptyPage
    /\ slider_state = <<>>
    /\ years_state = <<>>
    /\ radio_state = <<>>
    /\ clicked = FALSE
    /\ events = <<>>
    /\ previous = [ interaction |-> "load", shown |-> <<>> ]

Init == InitFrom(DebtSources, HepSources)

---------------------------------------------------------------------------
(* The statements of the debt section. *)

\* DebtRead with the exception caught: the script goes on with the hepatitis section.
DebtReadIsolated ==
    /\ pc = "debt_read"
    /\ events' = Append(events, "debt_fetch")
    /\ IF ReadCsvFails(remoteDebt)
       THEN Goto("hep_read") /\ UNCHANGED df_debt
       ELSE /\ df_debt' = remoteDebt.rows
            /\ Goto("debt_indicator")
    /\ UNCHANGED << page, min_year, max_year, year_range, df_debt_filtered, hepLocals,
                    revealLocals, widgets, remotes, clicked >>

\* app.py:40  df_debt = pd.read_csv(DATA_URL)
DebtRead ==
    /\ pc = "debt_read"
    /\ events' = Append(events, "debt_fetch")
    /\ IF ReadCsvFails(remoteDebt)
       THEN Raise /\ UNCHANGED df_debt
       ELSE /\ df_debt' = remoteDebt.rows
            /\ Goto("debt_indicator")
    /\ UNCHANGED << page, min_year, max_year, year_range, df_debt_filtered, hepLocals,
                    revealLocals, widgets, remotes, clicked >>

\* app.py:43  df_debt = df_debt[df_debt["Indicator Code"] == "DT.TDS.DPPG.CD"]
DebtFilterIndicator ==
    /\ pc = "debt_indicator"
    /\ IF MissingColumn(df_debt, "code")
       THEN Raise /\ UNCHANGED df_debt
       ELSE /\ df_debt' = DebtIndicator(df_debt)
            /\ Goto("debt_sort")
    /\ UNCHANGED << page, min_year, max_year, year_range, df_debt_filtered, hepLocals,
                    revealLocals, widgets, remotes, clicked, events >>

\* app.py:46  df_debt = df_debt.sort_values("refPeriod")
DebtSort ==
    /\ pc = "debt_sort"
    /\ IF MissingColumn(df_debt, "refPeriod")
       THEN Raise /\ UNCHANGED df_debt
       ELSE /\ df_debt' \in SortValues(df_debt)
            /\ Goto("min_max")
    /\ UNCHANGED << page, min_year, max_year, year_range, df_debt_filtered, hepLocals,
                    revealLocals, widgets, remotes, clicked, events >>

\* MinMaxYear with a fallback for an empty table instead of the exception.
MinMaxYearUnchecked ==
    /\ pc = "min_max"
    /\ min_year' = IF df_debt = <<>> THEN DefaultStart ELSE SetMin(RefPeriods(df_debt))
    /\ max_year' = IF df_debt = <<>> THEN DefaultStart ELSE SetMax(RefPeriods(df_debt))
    /\ Goto("slider")
    /\ UNCHANGED << page, df_debt, year_range, df_debt_filtered, hepLocals, revealLocals,
                    widgets, remotes, clicked, events >>

\* app.py:49-50  min_year = int(df_debt["refPeriod"].min()), max_year likewise:
\* the minimum of an empty column is NaN, and int(NaN) raises ValueError.
MinMaxYear ==
    /\ pc = "min_max"
    /\ IF df_debt = <<>>
       THEN Raise /\ UNCHANGED << min_year, max_year >>
       ELSE /\ min_year' = SetMin(RefPeriods(df_debt))
            /\ max_year' = SetMax(RefPeriods(df_debt))
            /\ Goto("slider")
    /\ UNCHANGED << page, df_debt, year_range, df_debt_filtered, hepLocals, revealLocals,
                    widgets, remotes, clicked, events >>

\* The default value st.slider is given: (1970, max_year), its ends swapped
\* when they come reversed.
SliderDefault(lo, hi) ==
    IF DefaultStart > hi THEN << hi, DefaultStart >> ELSE << DefaultStart, hi >>

\* The bounds of the slider: those given, widened to include the default.
SliderBounds(lo, hi) ==
    LET d == SliderDefault(lo, hi)
    IN  << IF d[1] < lo THEN d[1] ELSE lo, IF d[2] > hi THEN d[2] ELSE hi >>

\* app.py:52-57  year_range = st.slider(label, min_year, max_year, (1970, max_year)).
\* The widget is identified by its arguments: the session's value is returned
\* for the same widget, the default for a new one.
Slider ==
    /\ pc = "slider"
    /\ LET id == << min_year, max_year >>
           kept == slider_state # <<>> /\ slider_state[1].id = id
           value == IF kept THEN slider_state[1].value ELSE SliderDefault(min_year, max_year)
       IN  /\ year_range' = value
           /\ slider_state' = IF kept THEN slider_state ELSE <<>>
           /\ page' = [ page EXCEPT !.slider =
                          << [ id |-> id, bounds |-> SliderBounds(min_year, max_year),
                               value |-> value ] >> ]
    /\ Goto("debt_range")
    /\ UNCHANGED << df_debt, min_year, max_year, df_debt_filtered, hepLocals,
                    revealLocals, years_state, radio_state, remotes, clicked, events >>

\* app.py:59-62  df_debt_filtered = df_debt[(refPeriod >= lo) & (refPeriod <= hi)]
DebtFilterRange ==
    /\ pc = "debt_range"
    /\ df_debt_filtered' = DebtRange(df_debt, year_range[1], year_range[2])
    /\ Goto("debt_plot")
    /\ UNCHANGED << df_debt, min_year, max_year, year_range, hepLocals, revealLocals,
                    widgets, remotes, clicked, events, page >>

\* The points of the line chart: one per row, x = refPeriod, y = Value.
LinePoints(t) == [ i \in 1..Len(t) |-> [ x |-> t[i].refPeriod, y |-> t[i].Value ] ]

\* DebtPlot that draws the figure of the run before when it has one.
DebtPlotKeepsFigure ==
    /\ pc = "debt_plot"
    /\ page' = [ page EXCEPT !.debtChart =
                   IF previous.shown # <<>> THEN previous.shown[1].debtChart
                   ELSE << LinePoints(df_debt_filtered) >> ]
    /\ events' = Append(events, "debt_chart")
    /\ Goto("hep_read")
    /\ UNCHANGED << debtLocals, hepLocals, revealLocals, widgets, remotes, clicked >>

\* app.py:65-73  st.plotly_chart(px.line(df_debt_filtered, x="refPeriod", y="Value"))
DebtPlot ==
    /\ pc = "debt_plot"
    /\ page' = [ page EXCEPT !.debtChart = << LinePoints(df_debt_filtered) >> ]
    /\ events' = Append(events, "debt_chart")
    /\ Goto("hep_read")
    /\ UNCHANGED << debtLocals, hepLocals, revealLocals, widgets, remotes, clicked >>

---------------------------------------------------------------------------
(* The statements of the hepatitis section. *)

\* app.py:104  df_hepatitis = pd.read_csv(DATA_URL)
HepRead ==
    /\ pc = "hep_read"
    /\ events' = Append(events, "hep_fetch")
    /\ IF ReadCsvFails(remoteHep)
       THEN Raise /\ UNCHANGED df_hepatitis
       ELSE /\ df_hepatitis' = remoteHep.rows
            /\ Goto("hep_extract")
    /\ UNCHANGED << page, debtLocals, cases_over_time, years_available, years_selected,
                    cases_filtered, aggregation, revealLocals, widgets, remotes, clicked >>

\* app.py:107  df_hepatitis["refPeriod"] = df_hepatitis["refPeriod"].str.extract(...)
HepExtract ==
    /\ pc = "hep_extract"
    /\ IF MissingColumn(df_hepatitis, "refPeriod")
       THEN Raise /\ UNCHANGED df_hepatitis
       ELSE /\ df_hepatitis' =
                  [ i \in 1..Len(df_hepatitis) |->
                      [ df_hepatitis[i] EXCEPT !.refPeriod = StrExtract(@) ] ]
            /\ Goto("hep_to_datetime")
    /\ UNCHANGED << page, debtLocals, cases_over_time, years_available, years_selected,
                    cases_filtered, aggregation, revealLocals, widgets, remotes, clicked,
                    events >>

\* A row with one more column.
WithColumn(r, col, v) ==
    [ c \in DOMAIN r \cup { col } |-> IF c = col THEN v ELSE r[c] ]

\* app.py:110  df_hepatitis["Date"] = pd.to_datetime(refPeriod, format="%m-%Y", errors="coerce")
HepToDatetime ==
    /\ pc = "hep_to_datetime"
    /\ df_hepatitis' =
          [ i \in 1..Len(df_hepatitis) |->
              WithColumn(df_hepatitis[i], "Date", ToDatetime(df_hepatitis[i].refPeriod)) ]
    /\ Goto("hep_dropna")
    /\ UNCHANGED << debtLocals, cases_over_time, years_available, years_selected,
                    cases_filtered, aggregation, revealLocals, widgets, remotes, clicked,
                    events, page >>

\* app.py:113  df_hepatitis = df_hepatitis.dropna(subset=["Date"])
HepDropNa ==
    /\ pc = "hep_dropna"
    /\ LET dated(r) == r.Date # NaT
       IN  df_hepatitis' = SelectSeq(df_hepatitis, dated)
    /\ Goto("hep_year")
    /\ UNCHANGED << debtLocals, cases_over_time, years_available, years_selected,
                    cases_filtered, aggregation, revealLocals, widgets, remotes, clicked,
                    events, page >>

\* app.py:116  df_hepatitis["Year"] = df_hepatitis["Date"].dt.year.astype(str)
HepYear ==
    /\ pc = "hep_year"
    /\ df_hepatitis' =
          [ i \in 1..Len(df_hepatitis) |->
              WithColumn(df_hepatitis[i], "Year", IntToStr(df_hepatitis[i].Date[1])) ]
    /\ Goto("hep_groupby")
    /\ UNCHANGED << debtLocals, cases_over_time, years_available, years_selected,
                    cases_filtered, aggregation, revealLocals, widgets, remotes, clicked,
                    events, page >>

\* app.py:119  cases_over_time = df_hepatitis.groupby(["Date", "Year"])[...].sum().reset_index()
HepGroupBy ==
    /\ pc = "hep_groupby"
    /\ IF MissingColumn(df_hepatitis, "cases")
       THEN Raise /\ UNCHANGED cases_over_time
       ELSE /\ cases_over_time' = GroupByDateYear(df_hepatitis)
            /\ Goto("multiselect")
    /\ UNCHANGED << page, debtLocals, df_hepatitis, years_available, years_selected,
                    cases_filtered, aggregation, revealLocals, widgets, remotes, clicked,
                    events >>

\* app.py:126-131  years_available = sorted(cases_over_time["Year"].unique());
\* years_selected = st.multiselect(label, years_available, default=years_available).
\* Only membership in years_selected is used, so it is kept as a set.
Multiselect ==
    /\ pc = "multiselect"
    /\ LET options == SortedStrs({ cases_over_time[i].Year : i \in 1..Len(cases_over_time) })
           kept == years_state # <<>> /\ years_state[1].id = options
           value == IF kept THEN years_state[1].value ELSE Range(options)
       IN  /\ years_available' = options
           /\ years_selected' = value
           /\ years_state' = IF kept THEN years_state ELSE <<>>
           /\ page' = [ page EXCEPT !.multiselect =
                          << [ options |-> options, value |-> value ] >> ]
    /\ Goto("hep_isin")
    /\ UNCHANGED << debtLocals, df_hepatitis, cases_over_time, cases_filtered,
                    aggregation, revealLocals, slider_state, radio_state, remotes,
                    clicked, events >>

\* HepFilterYears that also drops the buckets after the end of the slider's range.
HepFilterYearsCoupled ==
    /\ pc = "hep_isin"
    /\ LET inRange(r) == r.Date[1] <= year_range[2]
       IN  cases_filtered' = SelectSeq(IsIn(cases_over_time, years_selected), inRange)
    /\ Goto("radio")
    /\ UNCHANGED << debtLocals, df_hepatitis, cases_over_time, years_available,
                    years_selected, aggregation, revealLocals, widgets, remotes, clicked,
                    events, page >>

\* app.py:133  cases_filtered = cases_over_time[cases_over_time["Year"].isin(years_selected)]
HepFilterYears ==
    /\ pc = "hep_isin"
    /\ cases_filtered' = IsIn(cases_over_time, years_selected)
    /\ Goto("radio")
    /\ UNCHANGED << debtLocals, df_hepatitis, cases_over_time, years_available,
                    years_selected, aggregation, revealLocals, widgets, remotes, clicked,
                    events, page >>

\* app.py:136-139  aggregation = st.radio(label, ["Monthly Cases", "Yearly Totals"])
Radio ==
    /\ pc = "radio"
    /\ LET value == IF radio_state = <<>> THEN RadioOptions[1] ELSE radio_state[1]
       IN  /\ aggregation' = value
           /\ page' = [ page EXCEPT !.radio = << value >> ]
    /\ Goto("hep_plot")
    /\ UNCHANGED << debtLocals, df_hepatitis, cases_over_time, years_available,
                    years_selected, cases_filtered, revealLocals, widgets, remotes,
                    clicked, events >>

\* BarChart without the yearly sums.
BarChartMonthlyOnly(agg, filtered) ==
    [ mode |-> agg, bars |-> filtered ]

\* app.py:144-162  the bars px.bar is given: the yearly sums under "Yearly
\* Totals", the filtered buckets otherwise.
BarChart(agg, filtered) ==
    IF agg = "Yearly Totals"
    THEN [ mode |-> agg, bars |-> GroupByYear(filtered) ]
    ELSE [ mode |-> agg, bars |-> filtered ]

\* app.py:144-165  st.plotly_chart(fig)
HepPlot ==
    /\ pc = "hep_plot"
    /\ page' = [ page EXCEPT !.hepChart = << BarChart(aggregation, cases_filtered) >> ]
    /\ events' = Append(events, "hep_chart")
    /\ Goto("button")
    /\ UNCHANGED << debtLocals, hepLocals, revealLocals, widgets, remotes, clicked >>

---------------------------------------------------------------------------
(* The closing message. *)

\* The script ran to its end.
Finish(p) ==
    /\ pc' = "done"
    /\ page' = p
    /\ UNCHANGED << errorAt, previous >>

\* app.py:183-188  if st.button(...): placeholder = st.empty(); words = message.split(); text = ""
Button ==
    /\ pc = "button"
    /\ IF clicked
       THEN /\ words' = Split(message)
            /\ text' = <<>>
            /\ wi' = 0
            /\ page' = [ page EXCEPT !.button = TRUE, !.closing = <<>> ]
            /\ Goto("reveal")
       ELSE /\ Finish([ page EXCEPT !.button = TRUE, !.closing = <<>> ])
            /\ UNCHANGED revealLocals
    /\ UNCHANGED << debtLocals, hepLocals, widgets, remotes, clicked, events >>

\* RevealWord with = in place of +=.
RevealWordAlone(t, w) == w \o << " " >>

\* app.py:190  text += word + " "
RevealWord(t, w) == t \o w \o << " " >>

\* app.py:189-192  for word in words: text += word + " "; placeholder.success(text); sleep
Reveal ==
    /\ pc = "reveal"
    /\ IF wi < Len(words)
       THEN /\ text' = RevealWord(text, words[wi + 1])
            /\ wi' = wi + 1
            /\ page' = [ page EXCEPT !.closing = text' ]
            /\ Goto("reveal")
       ELSE /\ Finish(page)
            /\ UNCHANGED << text, wi >>
    /\ UNCHANGED << debtLocals, hepLocals, words, widgets, remotes, clicked, events >>

---------------------------------------------------------------------------
(* Interactions: each one starts a run of the whole script. *)

\* What a run that reached its end was given and what it showed.
Snapshot ==
    [ year_range |-> year_range, years_selected |-> years_selected,
      aggregation |-> aggregation,
      debtChart |-> page.debtChart, cases_filtered |-> cases_filtered,
      hepChart |-> page.hepChart ]

\* A new run starts with nothing drawn and no variable of the script assigned.
StartRun(what) ==
    /\ Idle
    /\ pc' = "debt_read"
    /\ errorAt' = ""
    /\ events' = <<>>
    /\ previous' = [ interaction |-> what,
                      shown |-> IF pc = "done" THEN << Snapshot >> ELSE <<>> ]
    /\ page' = EmptyPage
    /\ df_debt' = <<>>
    /\ min_year' = 0
    /\ max_year' = 0
    /\ year_range' = << 0, 0 >>
    /\ df_debt_filtered' = <<>>
    /\ df_hepatitis' = <<>>
    /\ cases_over_time' = <<>>
    /\ years_available' = <<>>
    /\ years_selected' = {}
    /\ cases_filtered' = <<>>
    /\ aggregation' = RadioOptions[1]
    /\ words' = <<>>
    /\ text' = <<>>
    /\ wi' = 0
    /\ UNCHANGED remotes

\* The user moves the handles of the slider to (lo, hi).
MoveSlider(lo, hi) ==
    /\ page.slider # <<>>
    /\ lo <= hi
    /\ page.slider[1].bounds[1] <= lo
    /\ hi <= page.slider[1].bounds[2]
    /\ << lo, hi >> # page.slider[1].value
    /\ slider_state' = << [ id |-> page.slider[1].id, value |-> << lo, hi >> ] >>
    /\ clicked' = FALSE
    /\ StartRun("slider")
    /\ UNCHANGED << years_state, radio_state >>

\* The user sets the selection of the multiselect to sel.
SelectYears(sel) ==
    /\ page.multiselect # <<>>
    /\ sel \subseteq Range(page.multiselect[1].options)
    /\ sel # page.multiselect[1].value
    /\ years_state' = << [ id |-> page.multiselect[1].options, value |-> sel ] >>
    /\ clicked' = FALSE
    /\ StartRun("years")
    /\ UNCHANGED << slider_state, radio_state >>

\* The user picks the other view mode.
ChooseAggregation(mode) ==
    /\ page.radio # <<>>
    /\ mode # page.radio[1]
    /\ radio_state' = << mode >>
    /\ clicked' = FALSE
    /\ StartRun("radio")
    /\ UNCHANGED << slider_state, years_state >>

\* The user presses "Reveal closing message".
PressButton ==
    /\ page.button
    /\ clicked' = TRUE
    /\ StartRun("button")
    /\ UNCHANGED widgets

\* The user asks for a rerun without touching a control.
Rerun ==
    /\ clicked' = FALSE
    /\ StartRun("rerun")
    /\ UNCHANGED widgets

\* Between two runs the data behind a URL changes.  (A change during a run is
\* seen either by that run's one fetch of the URL or by the next run's, so it
\* is the same as a change before or after the run.)  The run that follows is
\* not compared with the one before.
RemoteChange ==
    /\ pc = "debt_read"
    /\ \/ remoteDebt' \in DebtSources \ { remoteDebt } /\ UNCHANGED remoteHep
       \/ remoteHep' \in HepSources \ { remoteHep } /\ UNCHANGED remoteDebt
    /\ previous' = [ previous EXCEPT !.shown = <<>> ]
    /\ UNCHANGED << pc, errorAt, debtLocals, hepLocals, revealLocals, page, widgets,
                    clicked, events >>

---------------------------------------------------------------------------
(* Specifications. *)

Script ==
    \/ DebtRead \/ DebtFilterIndicator \/ DebtSort \/ MinMaxYear \/ Slider
    \/ DebtFilterRange \/ DebtPlot
    \/ HepRead \/ HepExtract \/ HepToDatetime \/ HepDropNa \/ HepYear \/ HepGroupBy
    \/ Multiselect \/ HepFilterYears \/ Radio \/ HepPlot
    \/ Button

Next ==
    \/ Script
    \/ Reveal
    \/ \E lo, hi \in SliderStops : MoveSlider(lo, hi)
    \/ \E sel \in SUBSET Range(years_available) : SelectYears(sel)
    \/ \E mode \in Range(RadioOptions) : ChooseAggregation(mode)
    \/ PressButton
    \/ Rerun
    \/ RemoteChange

\* The dashboard over a few sources that change between runs.
Spec == Init /\ [][Next]_vars

InitDebt == InitFrom(DebtTables \cup { Unreachable }, { Served(HepExample) })

NextDebt ==
    \/ Script
    \/ \E lo, hi \in YearStops : MoveSlider(lo, hi)

\* The debt pipeline over every small debt table, the slider moved at will.
SpecDebt == InitDebt /\ [][NextDebt]_vars

InitHep == InitFrom({ Served(DebtExample) }, HepTables \cup { Unreachable })

NextHep ==
    \/ Script
    \/ \E sel \in SUBSET Range(years_available) : SelectYears(sel)
    \/ \E mode \in Range(RadioOptions) : ChooseAggregation(mode)

\* The hepatitis pipeline over every small hepatitis table, the years and the
\* view mode chosen at will.
SpecHep == InitHep /\ [][NextHep]_vars
---------------------------------------------------------------------------
(* Properties. *)

\* The statement stmt of this run has executed.
Past(stmt) ==
    \/ pc = "done"
    \/ pc = "error" /\ Position(errorAt) > Position(stmt)
    \/ pc \notin { "done", "error" } /\ Position(pc) > Position(stmt)

\* The number of rows of the served debt table that are of the indicator and
\* of year x and value y.
IndicatorRowsAt(x, y) ==
    Cardinality({ i \in 1..Len(remoteDebt.rows) :
                    /\ remoteDebt.rows[i].code = IndicatorCode
                    /\ remoteDebt.rows[i].refPeriod = x
                    /\ remoteDebt.rows[i].Value = y })

PointsAt(pts, x, y) == Cardinality({ i \in 1..Len(pts) : pts[i].x = x /\ pts[i].y = y })

\* C1: whatever the debt table and the slider's selection (lo, hi), the points
\* of the line chart are exactly the rows of indicator "DT.TDS.DPPG.CD" with
\* lo <= refPeriod <= hi, each as often as the table has it, in ascending
\* refPeriod order.
C1_DebtViewExact ==
    page.debtChart # <<>> =>
        LET pts == page.debtChart[1]
            lo == year_range[1]
            hi == year_range[2]
        IN  /\ \A i, j \in 1..Len(pts) : i < j => pts[i].x <= pts[j].x
            /\ \A i \in 1..Len(pts) : lo <= pts[i].x /\ pts[i].x <= hi
            /\ \A i \in 1..Len(pts) :
                  PointsAt(pts, pts[i].x, pts[i].y) = IndicatorRowsAt(pts[i].x, pts[i].y)
            /\ \A i \in 1..Len(remoteDebt.rows) :
                  LET r == remoteDebt.rows[i]
                  IN  (r.code = IndicatorCode /\ lo <= r.refPeriod /\ r.refPeriod <= hi)
                         => PointsAt(pts, r.refPeriod, r.Value)
                               = IndicatorRowsAt(r.refPeriod, r.Value)

\* The example of C1: years {1970: 5, 1980: 50, 2022: 0}, range (1970, 1980).
C1_Witness ==
    /\ remoteDebt = Served(DebtExample)
    /\ slider_state # <<>>
    /\ year_range = << 1970, 1980 >>
    /\ min_year <= year_range[1] /\ year_range[2] <= max_year
    /\ page.debtChart = << << [ x |-> 1970, y |-> 5 ], [ x |-> 1980, y |-> 50 ] >> >>

\* C9: whenever the table has a row of the indicator, the slider's initial
\* selection (1970, max_year) lies inside the bounds derived from the data,
\* min_year <= 1970 <= max_year.
C9_DefaultInsideDataBounds ==
    Past("min_max") => (min_year <= DefaultStart /\ DefaultStart <= max_year)

\* A refPeriod whose first substring of the form \d{2}-\d{4} parses as a
\* month-year: its month is 01..12 (and its year one a Timestamp holds).
FirstTokenParses(ref) ==
    \E i \in 1..Len(ref) :
        /\ MatchAt(ref, i)
        /\ \A j \in 1..(i - 1) : ~MatchAt(ref, j)
        /\ DigitVal(ref[i]) * 10 + DigitVal(ref[i + 1]) \in 1..12
        /\ LET y == TokenYear(SubSeq(ref, i, i + 6))
               m == DigitVal(ref[i]) * 10 + DigitVal(ref[i + 1])
           IN  /\ y * 12 + m >= MonthIndex(TimestampFirstMonth)
               /\ y * 12 + m <= MonthIndex(TimestampLastMonth)

\* The first token of a refPeriod that has one.
FirstToken(ref) ==
    LET i == CHOOSE k \in 1..Len(ref) : MatchAt(ref, k) /\ \A j \in 1..(k - 1) : ~MatchAt(ref, j)
    IN  SubSeq(ref, i, i + 6)

\* The rows of the served hepatitis table that C2 says contribute.
Contributing ==
    { i \in 1..Len(remoteHep.rows) : FirstTokenParses(remoteHep.rows[i].refPeriod) }

\* The year label and the month of a contributing row, read off its token.
LabelOf(i) == SubSeq(FirstToken(remoteHep.rows[i].refPeriod), 4, 7)
MonthOf(i) == TokenMonth(FirstToken(remoteHep.rows[i].refPeriod))

\* The sum of Number of cases over the rows I of the served hepatitis table.
RECURSIVE CasesOver(_)
CasesOver(I) ==
    IF I = {} THEN 0
    ELSE LET i == CHOOSE k \in I : TRUE
         IN  remoteHep.rows[i].cases + CasesOver(I \ { i })

\* The sum of the yearly totals of table t for year label y.
TotalFor(t, y) ==
    LET of(r) == r.Year = y IN SumCases(SelectSeq(t, of))

\* C2: a hepatitis row contributes to the aggregates if and only if the first
\* substring \d{2}-\d{4} of its refPeriod parses as a month-year: the monthly
\* buckets, the yearly totals and the available years are those of exactly
\* these rows, so a row without such a substring is in none of them.
C2_OnlyParsedRowsContribute ==
    Past("multiselect") =>
        /\ Range(years_available) = { LabelOf(i) : i \in Contributing }
        /\ \A k \in 1..Len(cases_over_time) :
              LET b == cases_over_time[k]
              IN  b.cases = CasesOver({ i \in Contributing :
                                          LabelOf(i) = b.Year /\ MonthOf(i) = b.Date[2] })
        /\ \A i \in Contributing :
              \E k \in 1..Len(cases_over_time) :
                  /\ cases_over_time[k].Year = LabelOf(i)
                  /\ cases_over_time[k].Date[2] = MonthOf(i)
        /\ \A y \in Range(years_available) :
              TotalFor(GroupByYear(cases_over_time), y)
                  = CasesOver({ i \in Contributing : LabelOf(i) = y })

\* The example of C2: "01-2015" (10 cases) and "13-2015" (5 cases) give a
\* total of 10 for year "2015".
C2_Witness ==
    /\ pc = "done"
    /\ remoteHep = Served(HepExample)
    /\ \E i, j \in 1..Len(remoteHep.rows) :
          /\ remoteHep.rows[i] = HepRow(Jan2015, 10)
          /\ remoteHep.rows[j] = HepRow(Month13, 5)
    /\ aggregation = "Yearly Totals"
    /\ years_selected = Range(years_available)
    /\ \E k \in 1..Len(page.hepChart[1].bars) :
          page.hepChart[1].bars[k] = [ Year |-> << "2", "0", "1", "5" >>, cases |-> 10 ]

\* C3: under "Yearly Totals" there is one bar per selected year that has a
\* bucket, and the bar of year y is as high as the "Monthly Cases" bars of
\* year y under the same selection taken together, which is the sum of Number
\* of cases over the retained rows of year y.
C3_YearlyIsSumOfMonthly ==
    (page.hepChart # <<>> /\ page.hepChart[1].mode = "Yearly Totals") =>
        LET bars == page.hepChart[1].bars
            monthly == BarChart("Monthly Cases", cases_filtered).bars
        IN  /\ { bars[k].Year : k \in 1..Len(bars) }
                  = { y \in years_selected :
                        \E k \in 1..Len(cases_over_time) : cases_over_time[k].Year = y }
            /\ \A j, k \in 1..Len(bars) : bars[j].Year = bars[k].Year => j = k
            /\ \A k \in 1..Len(bars) :
                  /\ bars[k].cases = TotalFor(monthly, bars[k].Year)
                  /\ bars[k].cases = TotalFor(df_hepatitis, bars[k].Year)

\* A year with two monthly buckets shown as one yearly bar, another year
\* being deselected.
C3_Witness ==
    /\ pc = "done"
    /\ aggregation = "Yearly Totals"
    /\ years_selected # Range(years_available)
    /\ years_selected # {}
    /\ Len(cases_filtered) = 2
    /\ Len(page.hepChart[1].bars) = 1
    /\ page.hepChart[1].bars[1].cases = cases_filtered[1].cases + cases_filtered[2].cases
    /\ page.hepChart[1].bars[1].cases < SumCases(df_hepatitis)

\* C4: with every year deselected the filtered buckets are empty, no
\* statement from the multiselect on raises, and the chart the run draws, in
\* either view mode, has no bar.
C4_NoYearsEmptyChart ==
    /\ (Past("hep_isin") /\ years_selected = {}) => cases_filtered = <<>>
    /\ (page.hepChart # <<>> /\ years_selected = {}) =>
          page.hepChart[1] = [ mode |-> aggregation, bars |-> <<>> ]
    /\ (Past("multiselect") /\ years_selected = {}) => pc # "error"
    /\ (pc = "done" /\ years_selected = {}) => page.hepChart # <<>>

\* The user has deselected both years of the example and looks at the yearly
\* totals: the run is over and the chart is empty.
C4_Witness ==
    /\ pc = "done"
    /\ years_available # <<>>
    /\ years_state # <<>>
    /\ years_selected = {}
    /\ cases_over_time # <<>>
    /\ page.hepChart = << [ mode |-> "Yearly Totals", bars |-> <<>> ] >>

\* The served debt table has no row of the indicator.
NoIndicatorRow ==
    /\ ~MissingColumn(remoteDebt.rows, "code")
    /\ \A i \in 1..Len(remoteDebt.rows) : remoteDebt.rows[i].code # IndicatorCode

\* C5: a run that finds the debt source unreachable, or no row of the
\* indicator in it, is ended by an exception at the fetch or at the min/max
\* computation: it goes no further, draws no slider and no debt chart, and
\* has sent the one request only.
C5_DebtFailureIsFatal ==
    (pc # "debt_read" /\ (ReadCsvFails(remoteDebt) \/ NoIndicatorRow)) =>
        /\ pc \in { "debt_indicator", "debt_sort", "min_max", "error" }
        /\ pc = "error" => errorAt = (IF ReadCsvFails(remoteDebt) THEN "debt_read" ELSE "min_max")
        /\ page.slider = <<>>
        /\ page.debtChart = <<>>
        /\ events = << "debt_fetch" >>

\* A run has ended at the min/max computation over a table without the indicator.
C5_Witness ==
    /\ pc = "error"
    /\ errorAt = "min_max"
    /\ remoteDebt.rows # <<>>
    /\ NoIndicatorRow
    /\ page = EmptyPage

DebtSection == { "debt_read", "debt_indicator", "debt_sort", "min_max", "slider",
                 "debt_range", "debt_plot" }

HepSection == { "hep_read", "hep_extract", "hep_to_datetime", "hep_dropna", "hep_year",
                "hep_groupby", "multiselect", "hep_isin", "radio", "hep_plot" }

\* C6 as stated: a failure ends the rendering of its own section only, so a
\* run that failed in the debt section has drawn the hepatitis controls and
\* chart, and a run that failed in the hepatitis section has drawn the debt chart.
C6_FailureStaysInSection ==
    /\ (pc = "error" /\ errorAt \in DebtSection) =>
          (page.multiselect # <<>> /\ page.radio # <<>> /\ page.hepChart # <<>>)
    /\ (pc = "error" /\ errorAt \in HepSection) => page.debtChart # <<>>

\* C6 as amended: a failure ends the whole run at the failing statement.  A
\* run that failed in the debt section has drawn nothing of either section
\* and has not fetched the hepatitis data; a run that failed in the hepatitis
\* section has drawn the slider and the debt chart and nothing of the
\* hepatitis section.
C6_FailureEndsRun ==
    /\ pc = "error" => errorAt \in DebtSection \cup HepSection
    /\ (pc = "error" /\ errorAt \in DebtSection) =>
          /\ page = EmptyPage
          /\ events = << "debt_fetch" >>
    /\ (pc = "error" /\ errorAt \in HepSection) =>
          /\ page.slider # <<>> /\ page.debtChart # <<>>
          /\ page.multiselect = <<>> /\ page.radio = <<>> /\ page.hepChart = <<>>
          /\ ~page.button
          /\ events = << "debt_fetch", "debt_chart", "hep_fetch" >>

\* After an interaction with a control the debt URL served a table without
\* refPeriod: the run ended at the sort with nothing drawn, the hepatitis
\* data never fetched.
C6_Witness ==
    /\ pc = "error"
    /\ errorAt = "debt_sort"
    /\ previous.interaction \in { "slider", "years", "radio", "button" }
    /\ remoteHep = Served(HepExample)
    /\ page.hepChart = <<>>

RunOrder == << "debt_fetch", "debt_chart", "hep_fetch", "hep_chart" >>

\* The bars the hepatitis chart must show for the served table, the selected
\* years and the view mode.
ExpectedBars ==
    IF aggregation = "Yearly Totals"
    THEN LET labels == { LabelOf(i) : i \in Contributing } \cap years_selected
         IN  [ k \in 1..Cardinality(labels) |->
                 [ Year |-> SortedStrs(labels)[k],
                   cases |-> CasesOver({ i \in Contributing :
                                           LabelOf(i) = SortedStrs(labels)[k] }) ] ]
    ELSE LET keys == { << << TokenYear(FirstToken(remoteHep.rows[i].refPeriod)), MonthOf(i) >>,
                          LabelOf(i) >> : i \in { j \in Contributing : LabelOf(j) \in years_selected } }
         IN  [ k \in 1..Cardinality(keys) |->
                 [ Date |-> SortedKeys(keys)[k][1], Year |-> SortedKeys(keys)[k][2],
                   cases |-> CasesOver({ i \in Contributing :
                                           /\ LabelOf(i) = SortedKeys(keys)[k][2]
                                           /\ MonthOf(i) = SortedKeys(keys)[k][1][2] }) ] ]

Controls == { "slider", "years", "radio", "button" }

Times(e) == Cardinality({ i \in 1..Len(events) : events[i] = e })

\* C7 as stated: the run that an interaction with a control starts has, when
\* it is over, fetched the debt data and the hepatitis data once each.
C7_EveryRunFetchesBoth ==
    (Idle /\ previous.interaction \in Controls) =>
        (Times("debt_fetch") = 1 /\ Times("hep_fetch") = 1)

\* C7 as amended: a run does debt fetch, debt chart, hepatitis fetch and
\* hepatitis chart in this order and each at most once, a run that is not
\* ended by an exception does all four, and what it shows is a function of
\* the tables served during the run and of the values of the controls alone.
C7_RunFetchesOnceAndShowsItsOwnData ==
    /\ pc = "debt_read" => (events = <<>> /\ page = EmptyPage)
    /\ \E n \in 0..Len(RunOrder) : events = SubSeq(RunOrder, 1, n)
    /\ pc = "done" =>
          /\ events = RunOrder
          /\ page.slider # <<>> /\ page.slider[1].value = year_range
          /\ page.multiselect # <<>> /\ page.multiselect[1].value = years_selected
          /\ page.radio = << aggregation >>
          /\ C1_DebtViewExact
          /\ page.hepChart = << [ mode |-> aggregation, bars |-> ExpectedBars ] >>

\* A run after the slider was moved, over unchanged data, shows another debt
\* chart than the run before it.
C7_Witness ==
    /\ pc = "done"
    /\ previous.shown # <<>>
    /\ previous.interaction = "slider"
    /\ previous.shown[1].debtChart # page.debtChart
    /\ page.hepChart[1].bars # <<>>
    /\ events = RunOrder

\* The eleven words of the closing sentence.
ClosingWords ==
    << << "F", "r", "o", "m" >>,
       << "d", "e", "b", "t" >>,
       << "t", "o" >>,
       << "d", "i", "s", "e", "a", "s", "e", "," >>,
       << "I" >>,
       << "h", "o", "p", "e" >>,
       << "y", "o", "u" >>,
       << "l", "e", "a", "r", "n", "e", "d" >>,
       << "s", "o", "m", "e", "t", "h", "i", "n", "g" >>,
       << "n", "e", "w", "!" >>,
       << ":", ")" >> >>

\* The first k words, each followed by a space.
RECURSIVE Shown(_)
Shown(k) == IF k = 0 THEN <<>> ELSE Shown(k - 1) \o ClosingWords[k] \o << " " >>

\* C8: in a run started by the button the placeholder shows, after k steps of
\* the loop, the first k of the eleven words in order, each followed by a
\* space; the loop ends after the eleventh with the whole sentence shown; and
\* in a run not started by the button nothing is shown.
C8_RevealWordByWord ==
    /\ Len(ClosingWords) = 11
    /\ pc = "reveal" =>
          /\ clicked
          /\ words = ClosingWords
          /\ wi \in 0..11
          /\ text = Shown(wi)
          /\ page.closing = Shown(wi)
    /\ (pc = "done" /\ clicked) =>
          /\ wi = 11
          /\ page.closing = message \o << " " >>
          /\ page.closing = Shown(11)
    /\ ~clicked => page.closing = <<>>
    /\ ~(Past("button") \/ pc = "reveal") => page.closing = <<>>

\* The loop has ended with the whole sentence on the page.
C8_Witness ==
    /\ pc = "done"
    /\ clicked
    /\ wi = 11
    /\ page.closing = message \o << " " >>

\* C10: over unchanged data, a run started by moving the slider shows the
\* hepatitis chart of the run before it (same selected years, same filtered
\* buckets, same bars); a run started by the multiselect or the radio shows
\* the debt chart of the run before it; and a run started by the radio has
\* the selected years and the filtered buckets of the run before it.
C10_ControlsAreIndependent ==
    previous.shown # <<>> =>
        LET before == previous.shown[1]
        IN  /\ (previous.interaction = "slider" /\ Past("multiselect")) =>
                  years_selected = before.years_selected
            /\ (previous.interaction = "slider" /\ Past("hep_isin")) =>
                  cases_filtered = before.cases_filtered
            /\ (previous.interaction = "slider" /\ Past("hep_plot")) =>
                  page.hepChart = before.hepChart
            /\ (previous.interaction \in { "years", "radio" } /\ Past("debt_plot")) =>
                  page.debtChart = before.debtChart
            /\ (previous.interaction = "radio" /\ Past("multiselect")) =>
                  years_selected = before.years_selected
            /\ (previous.interaction = "radio" /\ Past("hep_isin")) =>
                  cases_filtered = before.cases_filtered

\* The slider was moved and the debt chart changed while the hepatitis chart,
\* which has bars, did not.
C10_Witness ==
    /\ pc = "done"
    /\ previous.shown # <<>>
    /\ previous.interaction = "slider"
    /\ previous.shown[1].debtChart # page.debtChart
    /\ previous.shown[1].hepChart = page.hepChart
    /\ page.hepChart[1].bars # <<>>
    /\ years_selected # Range(years_available)

=============================================================================
